---- MODULE Spec2Model ----
(***************************************************************************)
(* Model of the orchestration layer of claude-code-agents:                 *)
(*   - AgentRegistry            (flexible_orchestrator-activity.py)        *)
(*   - ActivityTracker          (flexible_orchestrator-activity.py and     *)
(*                               multi_agent_orchestrator.py)              *)
(*   - FlexibleOrchestrator.execute (flexible_orchestrator-activity.py)    *)
(*   - PipelineOrchestrator.execute_pipeline (multi_agent_orchestrator.py)  *)
(* The external engine (claude_agent_sdk.query) is the environment: it     *)
(* calls the two hooks with arbitrary events and writes files into the     *)
(* workspace.                                                              *)
(***************************************************************************)
EXTENDS Integers, Sequences, FiniteSets, TLC

VARIABLES
    agents,          \* AgentRegistry._agents: insertion-ordered dict, as a sequence of AgentConfig
    regLog,          \* history: the AgentConfigs passed to register, in call order
    lastCall,        \* history: the last AgentRegistry call, what it raised and returned
    variant,         \* which of the two ActivityTracker classes is running
    activities,      \* ActivityTracker.activities
    subagent_map,    \* ActivityTracker.subagent_map: tool_use_id -> agent_name
    enterLog,        \* history: the enter events the pre hook received, in order
    exitLog,         \* history: the exit events the post hook received, in order
    outWrites,       \* history: per record, how many times its output_data was assigned
    open,            \* history: the calls entered and not yet exited, innermost last
    wellNested,      \* history: the stream so far is well-nested
    causal,          \* history: every parent id so far was entered before its child
    pc,              \* FlexibleOrchestrator.execute: position of the running call
    task,            \* the task argument of the running (or last) execute call
    runs,            \* history: execute calls started so far
    enable_tracking, \* FlexibleOrchestrator.enable_tracking
    workspace,       \* the directory tree under FlexibleOrchestrator.workspace
    engineCalls,     \* history: query() invocations made by the current execute call
    results,         \* the dictionary execute returned last
    stages,          \* execute_pipeline: the stages argument
    ppc,             \* execute_pipeline: position of the call
    idx,             \* execute_pipeline: i + 1, the stage the loop is at
    stage_outputs,   \* execute_pipeline: stage_outputs, stage name -> text
    stage_output,    \* execute_pipeline: stage_output, the text blocks of the running stage
    invocations,     \* history: the query() invocations of the pipeline, in order
    pipelineRaised   \* the exception that ended execute_pipeline

vars == <<agents, regLog, lastCall, variant, activities, subagent_map, enterLog, exitLog,
          outWrites, open, wellNested, causal, pc, task, runs, enable_tracking,
          workspace, engineCalls, results, stages, ppc, idx, stage_outputs,
          stage_output, invocations, pipelineRaised>>

registryVars == <<agents, regLog, lastCall>>
trackerVars == <<activities, subagent_map, enterLog, exitLog, outWrites, open,
                 wellNested, causal>>
driverVars == <<pc, task, runs, workspace, engineCalls, results>>
pipelineVars == <<stages, ppc, idx, stage_outputs, stage_output, invocations, pipelineRaised>>

\* Python's None
None == "None"

----------------------------------------------------------------------------
(* Bounds *)

\* register calls in one behaviour
MaxRegs == 3
\* hook events (enter and exit) in one behaviour of the tracker
MaxEvents == 3
\* hook events (enter and exit) in one well-nested stream
MaxNestedEvents == 4
\* hook events (enter and exit) in one stream of overlapping calls
MaxConcurrentEvents == 4
\* records in one list document given to register_from_file
MaxListLen == 2
\* text blocks the engine yields over one execute_pipeline call
MaxBlocks == 2
\* execute calls on one orchestrator
MaxRuns == 2
\* hook events the engine raises over the execute calls of one orchestrator
MaxRunEvents == 2

----------------------------------------------------------------------------
(* AgentRegistry *)

AgentNames == {"echo", "writer"}
Descriptions == {"d1", "d2"}
CapabilityLists == {<<>>, <<"io">>}

\* AgentConfig: name, description, tools, capabilities
AgentConfig == [name: AgentNames, description: Descriptions,
                tools: {<<"Read">>}, system_prompt: {"sp"},
                capabilities: CapabilityLists]

\* positions of the entries of dict d stored under key name
KeyPositions(d, name) == {i \in 1..Len(d) : d[i].name = name}

\* a buggy dict store: always appends, never replaces
DictSetAppend(d, cfg) == Append(d, cfg)

\* self._agents[agent_config.name] = agent_config
\* (a dict keeps the position of a key that is assigned again)
DictSet(d, cfg) ==
    IF KeyPositions(d, cfg.name) = {}
    THEN Append(d, cfg)
    ELSE [i \in 1..Len(d) |-> IF d[i].name = cfg.name THEN cfg ELSE d[i]]

\* AgentRegistry.get: self._agents.get(agent_name)
Get(d, name) ==
    IF KeyPositions(d, name) = {}
    THEN None
    ELSE d[CHOOSE i \in KeyPositions(d, name) :
                \A j \in KeyPositions(d, name) : i <= j]

\* a registry call: its name, the file it was given (register_from_file), the
\* exception it raised (None: it returned) and the text it returned
Call(op, suffix, content, raised, returned) ==
    [op |-> op, suffix |-> suffix, content |-> content, raised |-> raised,
     returned |-> returned]
NoContent == [kind |-> "none"]
NoCall == Call(None, None, NoContent, None, <<>>)

\* AgentRegistry.register
Register(cfg) ==
    /\ Len(regLog) < MaxRegs
    /\ agents' = DictSet(agents, cfg)
    /\ regLog' = Append(regLog, cfg)
    /\ lastCall' = Call("register", None, NoContent, None, <<>>)
    /\ UNCHANGED <<pipelineVars, variant, trackerVars, driverVars, enable_tracking>>

RegisterAny == \E cfg \in AgentConfig : Register(cfg)

\* The JSON objects found in configuration files: complete records, records
\* that leave the defaulted field out and a record without a required field.
ObjEcho == [name |-> "echo", description |-> "d1", tools |-> <<"Read">>,
            system_prompt |-> "sp", capabilities |-> <<"io">>]
ObjWriter == [name |-> "writer", description |-> "d1", tools |-> <<"Read">>,
              system_prompt |-> "sp"]
ObjEchoAgain == [name |-> "echo", description |-> "d2", tools |-> <<"Read">>,
                 system_prompt |-> "sp"]
ObjNoPrompt == [name |-> "echo", description |-> "d1", tools |-> <<"Read">>]
JsonObjects == {ObjEcho, ObjWriter, ObjEchoAgain, ObjNoPrompt}

\* JSON values: an object, a scalar (string, number, null), a list of those
JsonObject(o) == [kind |-> "object", obj |-> o]
JsonScalar == [kind |-> "scalar"]
JsonList(items) == [kind |-> "list", items |-> items]
JsonItems == {JsonObject(o) : o \in JsonObjects} \cup {JsonScalar}
SeqsUpTo(S, n) == UNION {[1..k -> S] : k \in 0..n}
JsonValues == JsonItems \cup {JsonList(l) : l \in SeqsUpTo(JsonItems, MaxListLen)}

\* what a file holds: a JSON value, or text json.load cannot parse
Malformed == [kind |-> "malformed"]
FileContents == JsonValues \cup {Malformed}
Suffixes == {".json", ".yaml"}

\* the dataclass fields of AgentConfig and those without a default
ConfigFields == {"name", "description", "tools", "system_prompt", "capabilities",
                 "metadata"}
RequiredFields == {"name", "description", "tools", "system_prompt"}

\* AgentConfig(**config) accepts config
Accepted(v) ==
    /\ v.kind = "object"
    /\ DOMAIN v.obj \subseteq ConfigFields
    /\ RequiredFields \subseteq DOMAIN v.obj

\* AgentConfig(**config): absent fields take their defaults
FromDict(o) ==
    [name |-> o.name, description |-> o.description, tools |-> o.tools,
     system_prompt |-> o.system_prompt,
     capabilities |-> IF "capabilities" \in DOMAIN o THEN o.capabilities ELSE <<>>]

\* the state of a load in progress: the dict, the register calls made, the
\* exception raised
LoadState(d, log, raised) == [agents |-> d, log |-> log, raised |-> raised]

\* register_from_dict on one JSON value, unless an exception is already raised
RegisterFromDict(st, v) ==
    IF st.raised # None THEN st
    ELSE IF Accepted(v)
         THEN LoadState(DictSet(st.agents, FromDict(v.obj)),
                        Append(st.log, FromDict(v.obj)), None)
         ELSE LoadState(st.agents, st.log, "TypeError")

\* for config in configs: self.register_from_dict(config)
RECURSIVE RegisterEach(_, _)
RegisterEach(st, items) ==
    IF items = <<>> THEN st
    ELSE RegisterEach(RegisterFromDict(st, Head(items)), Tail(items))

\* a transactional loader: a load that fails leaves the registry as it was
LoadParsedAtomic(d, content) ==
    LET out == IF content.kind = "malformed"
               THEN LoadState(d, <<>>, "JSONDecodeError")
               ELSE IF content.kind = "list"
                    THEN RegisterEach(LoadState(d, <<>>, None), content.items)
                    ELSE RegisterFromDict(LoadState(d, <<>>, None), content)
    IN IF out.raised = None THEN out ELSE LoadState(d, <<>>, out.raised)

\* register_from_file once the file is open
LoadParsed(d, content) ==
    IF content.kind = "malformed" THEN LoadState(d, <<>>, "JSONDecodeError")
    ELSE IF content.kind = "list"
         THEN RegisterEach(LoadState(d, <<>>, None), content.items)
         ELSE RegisterFromDict(LoadState(d, <<>>, None), content)

\* a buggy loader: reads the file whatever its extension
LoadAnySuffix(d, suffix, content) == LoadParsed(d, content)

\* register_from_file: the outcome for a file with this suffix and content
LoadOutcome(d, suffix, content) ==
    IF suffix = ".json" THEN LoadParsed(d, content)
    ELSE LoadState(d, <<>>, "ValueError")

\* AgentRegistry.register_from_file
RegisterFromFile(suffix, content) ==
    LET out == LoadOutcome(agents, suffix, content) IN
    /\ Len(regLog) + Len(out.log) <= MaxRegs
    /\ agents' = out.agents
    /\ regLog' = regLog \o out.log
    /\ lastCall' = Call("register_from_file", suffix, content, out.raised, <<>>)
    /\ UNCHANGED <<pipelineVars, variant, trackerVars, driverVars, enable_tracking>>

\* a file that is not .json is never opened
RegisterFromFileAny ==
    \/ \E content \in FileContents : RegisterFromFile(".json", content)
    \/ \E suffix \in Suffixes \ {".json"} : RegisterFromFile(suffix, NoContent)

\* the elements of a sequence
Range(s) == {s[i] : i \in DOMAIN s}

\* a buggy lookup: returns every agent
FindAll(d, capability) == d

\* AgentRegistry.find_by_capability
FindByCapability(d, capability) ==
    SelectSeq(d, LAMBDA agent : capability \in Range(agent.capabilities))

\* sep.join(parts), as the sequence of its pieces
Join(parts, sep) ==
    IF parts = <<>> THEN <<>>
    ELSE [i \in 1..(2 * Len(parts) - 1) |->
             IF i % 2 = 1 THEN parts[(i + 1) \div 2] ELSE sep]

\* the lines to_prompt_context adds for one agent
ContextEntry(agent) ==
    <<"* ", agent.name, "\n">>
    \o <<"  Description: ", agent.description, "\n">>
    \o <<"  Capabilities: ">> \o Join(agent.capabilities, ", ") \o <<"\n">>
    \o <<"  Tools: ">> \o Join(agent.tools, ", ") \o <<"\n\n">>

RECURSIVE ContextEntries(_)
ContextEntries(d) ==
    IF d = <<>> THEN <<>> ELSE ContextEntry(Head(d)) \o ContextEntries(Tail(d))

\* a buggy rendering: no test for the empty registry
ToPromptContextAlwaysListing(d) == <<"AVAILABLE AGENTS:\n\n">> \o ContextEntries(d)

\* AgentRegistry.to_prompt_context: the text, as the sequence of its pieces
ToPromptContext(d) ==
    IF d = <<>> THEN <<"No agents registered.">>
    ELSE <<"AVAILABLE AGENTS:\n\n">> \o ContextEntries(d)

\* a buggy traversal: consumes the entries it visits
ItemsConsumed(d) == <<>>

\* self._agents after to_prompt_context went through self._agents.items()
ItemsVisited(d) == d

\* AgentRegistry.to_prompt_context, called
RenderContext ==
    /\ agents' = ItemsVisited(agents)
    /\ lastCall' = Call("to_prompt_context", None, NoContent, None,
                        ToPromptContext(agents))
    /\ UNCHANGED <<pipelineVars, regLog, variant, trackerVars, driverVars, enable_tracking>>

----------------------------------------------------------------------------
(* ActivityTracker *)

Variants == {"flexible", "multi"}

\* Agent names are formatted strings. A name is modelled as <<text, ordinal>>,
\* standing for the string text-ordinal; ordinal 0 stands for the bare text.
\* f"{X}-{n}" determines X and n (n is what follows the last hyphen), so two
\* modelled names are equal exactly when the formatted strings are.
RootLabel(v) ==
    IF v = "flexible" THEN <<"LEAD-ORCHESTRATOR", 0>> ELSE <<"LEAD-AGENT", 0>>

\* call identifiers the engine hands out; fresh ones are used in this order
IdOrder == <<"t1", "t2", "t3">>
Ids == {IdOrder[i] : i \in 1..Len(IdOrder)}

ToolNames == {"Task", "Read"}
SubagentTypes == {"writer", "Analyst"}

\* str.upper()
Upper(s) ==
    CASE s = "writer" -> "WRITER"
      [] s = "Analyst" -> "ANALYST"
      [] s = "" -> ""

\* the output payload the engine reports for call id
Payload(id) == <<"result", id>>
\* field(default_factory=dict): the empty output_data of a new record
EmptyOutput == <<>>

\* an enter event: the arguments of pre_tool_use_hook
\*   tool_name, subagent_type, parent_tool_use_id are keys of input_data
EnterEvents(ids, parents) ==
    [tool_name: {"Task"}, subagent_type: SubagentTypes,
     tool_use_id: ids, parent_tool_use_id: parents]
    \cup
    [tool_name: ToolNames \ {"Task"}, subagent_type: {""},
     tool_use_id: ids, parent_tool_use_id: parents]

UsedIds == {enterLog[i].tool_use_id : i \in 1..Len(enterLog)} \ {None}

\* the next identifier the engine has not used yet (None when all are used)
FreshId ==
    IF \A i \in 1..Len(IdOrder) : IdOrder[i] \in UsedIds
    THEN None
    ELSE IdOrder[CHOOSE i \in 1..Len(IdOrder) :
                    /\ IdOrder[i] \notin UsedIds
                    /\ \A j \in 1..(i-1) : IdOrder[j] \in UsedIds]


\* pre_tool_use_hook, "Detect subagent spawning": the map after the event
SpawnMapAfter(map, e) ==
    IF e.tool_name = "Task" /\ e.tool_use_id # None
    THEN [k \in DOMAIN map \cup {e.tool_use_id} |->
            IF k = e.tool_use_id
            THEN <<Upper(e.subagent_type), Cardinality(DOMAIN map) + 1>>
            ELSE map[k]]
    ELSE map

\* a buggy attribution: looks the call's own identifier up, not its parent's
AttributeOwn(map, e, root) ==
    IF e.tool_use_id \in DOMAIN map THEN map[e.tool_use_id] ELSE root

\* a buggy attribution: every call goes to the coordinator
AttributeRoot(map, e, root) == root

\* the label with the highest ordinal in the map
LatestLabel(map) ==
    map[CHOOSE k \in DOMAIN map : \A j \in DOMAIN map : map[j][2] <= map[k][2]]

\* a buggy attribution: by position in the stream, a call under a parent goes
\* to the sub-worker spawned last
AttributeLatestSpawn(map, e, root) ==
    IF e.parent_tool_use_id = None \/ DOMAIN map = {} THEN root
    ELSE LatestLabel(map)

\* pre_tool_use_hook, "Determine which agent made this call":
\* self.subagent_map.get(parent_id, root)
Attribute(map, e, root) ==
    IF e.parent_tool_use_id \in DOMAIN map
    THEN map[e.parent_tool_use_id]
    ELSE root

\* a buggy record: stores the call's own identifier as its parent
NewActivityOwnParent(agent, e, now) ==
    [agent_name |-> agent, tool_name |-> e.tool_name, timestamp |-> now,
     input_data |-> [tool_name |-> e.tool_name,
                     subagent_type |-> e.subagent_type,
                     parent_tool_use_id |-> e.parent_tool_use_id],
     output_data |-> EmptyOutput, parent_tool_id |-> e.tool_use_id]

\* AgentActivity(agent_name=..., tool_name=..., timestamp=..., input_data=...,
\*               parent_tool_id=parent_id)
NewActivity(agent, e, now) ==
    [agent_name |-> agent, tool_name |-> e.tool_name, timestamp |-> now,
     input_data |-> [tool_name |-> e.tool_name,
                     subagent_type |-> e.subagent_type,
                     parent_tool_use_id |-> e.parent_tool_use_id],
     output_data |-> EmptyOutput, parent_tool_id |-> e.parent_tool_use_id]

\* datetime.now(): a logical clock, the number of events seen so far
Now == Len(enterLog) + Len(exitLog)

\* a buggy hook: a spawn event relabels the records that named it as parent
\* before it was observed
PreToolUseRelabelling(e) ==
    /\ subagent_map' = SpawnMapAfter(subagent_map, e)
    /\ activities' = Append(
            [i \in 1..Len(activities) |->
                IF /\ e.tool_name = "Task"
                   /\ e.tool_use_id # None
                   /\ activities[i].parent_tool_id = e.tool_use_id
                THEN [activities[i] EXCEPT !.agent_name = subagent_map'[e.tool_use_id]]
                ELSE activities[i]],
            NewActivity(Attribute(subagent_map', e, RootLabel(variant)), e, Now))
    /\ enterLog' = Append(enterLog, e)
    /\ outWrites' = Append(outWrites, 0)
    /\ open' = IF e.tool_use_id # None THEN Append(open, e.tool_use_id) ELSE open
    /\ wellNested' = wellNested
    /\ causal' = causal
    /\ UNCHANGED exitLog

\* pre_tool_use_hook
PreToolUse(e) ==
    /\ subagent_map' = SpawnMapAfter(subagent_map, e)
    /\ activities' = Append(activities,
            NewActivity(Attribute(subagent_map', e, RootLabel(variant)), e, Now))
    /\ enterLog' = Append(enterLog, e)
    /\ outWrites' = Append(outWrites, 0)
    /\ open' = IF e.tool_use_id # None THEN Append(open, e.tool_use_id) ELSE open
    /\ wellNested' = (/\ wellNested
                      /\ e.tool_use_id # None
                      /\ e.tool_use_id \notin UsedIds
                      /\ \/ e.parent_tool_use_id = None
                         \/ e.parent_tool_use_id \in Range(open))
    /\ causal' = (/\ causal
                  /\ \/ e.parent_tool_use_id = None
                     \/ e.parent_tool_use_id \in UsedIds)
    /\ UNCHANGED exitLog

\* a buggy selection: compares the tool name with the agent name
GetActivitiesByTool(acts, agent_name) ==
    SelectSeq(acts, LAMBDA a : a.tool_name = agent_name[1])

\* get_activities_by_agent: [a for a in self.activities if a.agent_name == agent_name]
GetActivitiesByAgent(acts, agent_name) ==
    SelectSeq(acts, LAMBDA a : a.agent_name = agent_name)

\* a buggy choice: the oldest record that has no output yet
PostTargetOldestAwaiting(acts) ==
    LET waiting == {i \in 1..Len(acts) : acts[i].output_data = EmptyOutput}
    IN IF waiting = {} THEN Len(acts)
       ELSE CHOOSE i \in waiting : \A j \in waiting : i <= j

\* the record post_tool_use_hook assigns to: self.activities[-1]
\* (0 when the list is empty and nothing is assigned)
PostTarget(acts) == Len(acts)

\* a buggy hook: removes the record it completes
PostToolUseDropping(x) ==
    /\ activities' = SubSeq(activities, 1, Len(activities) - 1)
    /\ outWrites' = SubSeq(outWrites, 1, Len(outWrites) - 1)
    /\ exitLog' = Append(exitLog, x)
    /\ open' = SelectSeq(open, LAMBDA id : id # x.tool_use_id)
    /\ UNCHANGED <<subagent_map, enterLog, causal, wellNested>>

\* post_tool_use_hook
PostToolUse(x) ==
    /\ activities' = [i \in 1..Len(activities) |->
            IF i = PostTarget(activities)
            THEN [activities[i] EXCEPT !.output_data = x.output_data]
            ELSE activities[i]]
    /\ outWrites' = [i \in 1..Len(outWrites) |->
            IF i = PostTarget(activities) THEN outWrites[i] + 1 ELSE outWrites[i]]
    /\ exitLog' = Append(exitLog, x)
    /\ open' = IF open # <<>> /\ open[Len(open)] = x.tool_use_id
               THEN SubSeq(open, 1, Len(open) - 1)
               ELSE SelectSeq(open, LAMBDA id : id # x.tool_use_id)
    /\ wellNested' = (/\ wellNested
                      /\ open # <<>>
                      /\ open[Len(open)] = x.tool_use_id)
    /\ UNCHANGED <<subagent_map, enterLog, causal>>

\* the engine calls the pre hook: any tool, its own identifier a used one, the
\* next fresh one or none, its parent any identifier or none
TrackerEnter ==
    /\ Now < MaxEvents
    /\ \E e \in EnterEvents(UsedIds \cup {FreshId, None}, Ids \cup {None}) :
            PreToolUse(e)
    /\ UNCHANGED <<pipelineVars, registryVars, variant, driverVars, enable_tracking>>

\* the engine calls the post hook for a call that is open (or for no identifier)
TrackerExit ==
    /\ Now < MaxEvents
    /\ \E id \in Range(open) \cup {None} :
            PostToolUse([tool_use_id |-> id, output_data |-> Payload(id)])
    /\ UNCHANGED <<pipelineVars, registryVars, variant, driverVars, enable_tracking>>

\* the engine enters a call inside the innermost open call: a fresh
\* identifier, no parent or one of the calls that are open
NestedEnter ==
    /\ Now < MaxNestedEvents
    /\ FreshId # None
    /\ \E e \in EnterEvents({FreshId}, Range(open) \cup {None}) : PreToolUse(e)
    /\ UNCHANGED <<pipelineVars, registryVars, variant, driverVars, enable_tracking>>

\* the engine exits the innermost open call
NestedExit ==
    /\ Now < MaxNestedEvents
    /\ open # <<>>
    /\ PostToolUse([tool_use_id |-> open[Len(open)],
                    output_data |-> Payload(open[Len(open)])])
    /\ UNCHANGED <<pipelineVars, registryVars, variant, driverVars, enable_tracking>>

\* the engine enters a call while others may be open: a fresh identifier, no
\* parent or a call entered before
ConcurrentEnter ==
    /\ Now < MaxConcurrentEvents
    /\ FreshId # None
    /\ \E e \in EnterEvents({FreshId}, UsedIds \cup {None}) : PreToolUse(e)
    /\ UNCHANGED <<pipelineVars, registryVars, variant, driverVars, enable_tracking>>

\* the engine exits any of the open calls: sub-workers running side by side
\* end in any order
ConcurrentExit ==
    /\ Now < MaxConcurrentEvents
    /\ \E id \in Range(open) :
            PostToolUse([tool_use_id |-> id, output_data |-> Payload(id)])
    /\ UNCHANGED <<pipelineVars, registryVars, variant, driverVars, enable_tracking>>

----------------------------------------------------------------------------
(* FlexibleOrchestrator.execute *)

Tasks == {"research"}

\* str(self.workspace)
WorkspaceDir == "./orchestrator_workspace"

\* the paths the engine may create under the workspace, relative to it
FilePaths == {"report.md", "data.json", "out/data.json"}
DirPaths == {"out"}
\* the directory a path lies in ("" is the workspace itself)
DirOf(p) == IF p = "out/data.json" THEN "out" ELSE ""
\* Path.name: the last component
BaseName(p) == IF p = "out/data.json" THEN "data.json" ELSE p

FileSizes == {0, 12}

\* self.workspace.glob("**/*"): every entry below the workspace, at any depth
GlobAll(ws) == DOMAIN ws

\* a buggy listing: every entry matched by the glob, directories included
ListedPathsNoFilter(ws) == GlobAll(ws)

\* for file_path in glob("**/*"): if file_path.is_file()
ListedPaths(ws) == {p \in GlobAll(ws) : ws[p].kind = "file"}

\* {"path": str(file_path), "name": file_path.name, "size": st_size}
FileEntry(ws, p) ==
    [path |-> <<WorkspaceDir, p>>, name |-> BaseName(p), size |-> ws[p].size]

\* the orders in which glob may yield the paths of set S
Orderings(S) ==
    {o \in [1..Cardinality(S) -> S] : \A i, j \in DOMAIN o : i # j => o[i] # o[j]}

\* FlexibleOrchestrator.get_activity_timeline is asdict of every record
GetActivityTimeline(acts) == acts

\* a buggy result: counts every hook event, exits included, as a tool call
ResultsCountsEvents(o) ==
    LET base == [task |-> task, workspace |-> WorkspaceDir,
                 output_files |-> [i \in DOMAIN o |-> FileEntry(workspace, o[i])],
                 status |-> "completed"]
    IN IF enable_tracking
       THEN [k \in DOMAIN base \cup {"activity_timeline", "total_tool_calls"} |->
                CASE k = "activity_timeline" -> GetActivityTimeline(activities)
                  [] k = "total_tool_calls" -> Len(enterLog) + Len(exitLog)
                  [] OTHER -> base[k]]
       ELSE base

\* execute, "Collect results": the returned dictionary, the glob yielding order o
Results(o) ==
    LET base == [task |-> task, workspace |-> WorkspaceDir,
                 output_files |-> [i \in DOMAIN o |-> FileEntry(workspace, o[i])],
                 status |-> "completed"]
    IN IF enable_tracking
       THEN [k \in DOMAIN base \cup {"activity_timeline", "total_tool_calls"} |->
                CASE k = "activity_timeline" -> GetActivityTimeline(activities)
                  [] k = "total_tool_calls" -> Len(activities)
                  [] OTHER -> base[k]]
       ELSE base

\* execute is called: the prompt and the options are built and query() is
\* invoked, once
ExecuteStart ==
    /\ pc \in {"idle", "done", "failed"}
    /\ runs < MaxRuns
    /\ \E t \in Tasks : task' = t
    /\ runs' = runs + 1
    /\ engineCalls' = 1
    /\ results' = None
    /\ pc' = "streaming"
    /\ UNCHANGED <<pipelineVars, registryVars, variant, trackerVars, enable_tracking, workspace>>

\* the engine writes a file (Write, Bash): last write wins
EngineWrite ==
    /\ pc = "streaming"
    /\ \E p \in FilePaths, n \in FileSizes :
        /\ DirOf(p) = "" \/ DirOf(p) \in DOMAIN workspace
        /\ workspace' = [q \in DOMAIN workspace \cup {p} |->
                            IF q = p THEN [kind |-> "file", size |-> n]
                            ELSE workspace[q]]
    /\ UNCHANGED <<pipelineVars, registryVars, variant, trackerVars, enable_tracking,
                   pc, task, runs, engineCalls, results>>

\* the engine creates a directory
EngineMkdir ==
    /\ pc = "streaming"
    /\ \E d \in DirPaths :
        /\ d \notin DOMAIN workspace
        /\ workspace' = [q \in DOMAIN workspace \cup {d} |->
                            IF q = d THEN [kind |-> "dir", size |-> 4096]
                            ELSE workspace[q]]
    /\ UNCHANGED <<pipelineVars, registryVars, variant, trackerVars, enable_tracking,
                   pc, task, runs, engineCalls, results>>

\* the engine removes a file
EngineRemove ==
    /\ pc = "streaming"
    /\ \E p \in FilePaths \cap DOMAIN workspace :
        workspace' = [q \in DOMAIN workspace \ {p} |-> workspace[q]]
    /\ UNCHANGED <<pipelineVars, registryVars, variant, trackerVars, enable_tracking,
                   pc, task, runs, engineCalls, results>>

\* the engine calls the attached pre hook during the stream; calls carry
\* fresh identifiers and name no parent or an earlier call
EngineEnter ==
    /\ pc = "streaming"
    /\ enable_tracking
    /\ Now < MaxRunEvents
    /\ FreshId # None
    /\ \E e \in EnterEvents({FreshId}, UsedIds \cup {None}) : PreToolUse(e)
    /\ UNCHANGED <<pipelineVars, registryVars, variant, driverVars, enable_tracking>>

\* the engine calls the attached post hook during the stream
EngineExit ==
    /\ pc = "streaming"
    /\ enable_tracking
    /\ Now < MaxRunEvents
    /\ \E id \in Range(open) :
            PostToolUse([tool_use_id |-> id, output_data |-> Payload(id)])
    /\ UNCHANGED <<pipelineVars, registryVars, variant, driverVars, enable_tracking>>

\* the stream ends: the async for loop is left and the results are collected
StreamEnd ==
    /\ pc = "streaming"
    /\ \E o \in Orderings(ListedPaths(workspace)) : results' = Results(o)
    /\ pc' = "done"
    /\ UNCHANGED <<pipelineVars, registryVars, variant, trackerVars, enable_tracking,
                   task, runs, workspace, engineCalls>>

\* query() raises: the exception leaves execute, nothing is returned
StreamFail ==
    /\ pc = "streaming"
    /\ pc' = "failed"
    /\ UNCHANGED <<pipelineVars, registryVars, variant, trackerVars, enable_tracking,
                   task, runs, workspace, engineCalls, results>>

----------------------------------------------------------------------------
(* PipelineOrchestrator.execute_pipeline *)

EmptyMap == [k \in {} |-> None]

\* Stage names are distinct within one pipeline; a list of n stages is named
\* by the first n of these, and a dependency may name any of them, listed
\* earlier, later or not at all.
StageOrder == <<"A", "B", "C">>
StageNames == Range(StageOrder)
DependencyLists == {<<>>, <<"A">>, <<"B">>, <<"C">>, <<"A", "B">>, <<"B", "A">>}
StageLists ==
    UNION {{[i \in 1..n |-> [name |-> StageOrder[i], dependencies |-> deps[i]]] :
                deps \in [1..n -> DependencyLists]} : n \in 0..Len(StageOrder)}

\* the text of a TextBlock
BlockTexts == {"X", "Y"}

\* stage["task"]
TaskOf(stage) == <<"task of ", stage.name>>

\* Texts are sequences of pieces; the fixed pieces of the injected context
ContextHeader == "\n\nPREVIOUS STAGE OUTPUTS:\n"
DepBlock(dep, text) == <<"\n[", dep, "]:\n">> \o text \o <<"\n">>

\* for dep in dependencies: if dep in stage_outputs: dep_context += ...
RECURSIVE DepBlocks(_, _)
DepBlocks(deps, outs) ==
    IF deps = <<>> THEN <<>>
    ELSE (IF Head(deps) \in DOMAIN outs
          THEN DepBlock(Head(deps), outs[Head(deps)]) ELSE <<>>)
         \o DepBlocks(Tail(deps), outs)

Reverse(s) == [i \in 1..Len(s) |-> s[Len(s) + 1 - i]]

\* a buggy context: goes through the dependencies last to first
DepContextReversed(deps, outs) == <<ContextHeader>> \o DepBlocks(Reverse(deps), outs)

\* dep_context
DepContext(deps, outs) == <<ContextHeader>> \o DepBlocks(deps, outs)

\* the prompt given to query(): the task, then the context if the stage
\* declares dependencies
PromptOf(stage, outs) ==
    IF stage.dependencies = <<>> THEN TaskOf(stage)
    ELSE TaskOf(stage) \o DepContext(stage.dependencies, outs)

\* what the engine raises when an invocation fails; it knows no stage
EngineError == [type |-> "EngineError", stage |-> None]
NoError == [type |-> None, stage |-> None]

\* a buggy driver: wraps the failure in an error that names the stage
Wrapped(exc, stageName) == [type |-> "StageExecutionError", stage |-> stageName]

\* an exception raised inside the loop leaves execute_pipeline as it is
Propagated(exc, stageName) == exc

\* one query() invocation: its stage, its prompt and the stages completed
\* when it was made
Invocation(stage, outs) ==
    [stage |-> stage.name, prompt |-> PromptOf(stage, outs), completed |-> DOMAIN outs]

\* a buggy store: the text of the stage is not recorded
OutputsKept(outs, name, text) == outs

\* stage_outputs[stage_name] = text
OutputsWith(outs, name, text) ==
    [n \in DOMAIN outs \cup {name} |-> IF n = name THEN text ELSE outs[n]]

\* text blocks yielded so far in this call
RECURSIVE BlocksIn(_)
BlocksIn(names) ==
    IF names = {} THEN 0
    ELSE LET n == CHOOSE x \in names : TRUE
         IN (Len(stage_outputs[n]) + 1) \div 2 + BlocksIn(names \ {n})
BlocksSoFar == Len(stage_output) + BlocksIn(DOMAIN stage_outputs)

\* execute_pipeline(stages) up to the first query(), or to the return when
\* there is no stage
ExecutePipeline(stageList) ==
    /\ ppc = "idle"
    /\ stages' = stageList
    /\ stage_outputs' = EmptyMap
    /\ stage_output' = <<>>
    /\ pipelineRaised' = NoError
    /\ IF stageList = <<>>
       THEN /\ ppc' = "done"
            /\ UNCHANGED <<idx, invocations>>
       ELSE /\ ppc' = "streaming"
            /\ idx' = 1
            /\ invocations' = <<Invocation(stageList[1], EmptyMap)>>
    /\ UNCHANGED <<registryVars, variant, trackerVars, enable_tracking, driverVars>>

ExecutePipelineAny == \E stageList \in StageLists : ExecutePipeline(stageList)

\* the stream yields an AssistantMessage with a TextBlock
StageText(text) ==
    /\ ppc = "streaming"
    /\ BlocksSoFar < MaxBlocks
    /\ stage_output' = Append(stage_output, text)
    /\ UNCHANGED <<stages, ppc, idx, stage_outputs, invocations, pipelineRaised>>
    /\ UNCHANGED <<registryVars, variant, trackerVars, enable_tracking, driverVars>>

\* the engine writes an artifact into the workspace while a stage runs
StageWrite(n) ==
    /\ ppc = "streaming"
    /\ workspace' = [p \in DOMAIN workspace \cup {"report.md"} |->
                        IF p = "report.md" THEN [kind |-> "file", size |-> n]
                        ELSE workspace[p]]
    /\ workspace' # workspace
    /\ UNCHANGED <<pipelineVars, registryVars, variant, trackerVars, enable_tracking,
                   pc, task, runs, engineCalls, results>>

\* the stream of stage idx ends: its text is stored, and the loop goes on to
\* the next query() or to the return
StageEnd ==
    LET outs == OutputsWith(stage_outputs, stages[idx].name, Join(stage_output, "\n")) IN
    /\ ppc = "streaming"
    /\ stage_outputs' = outs
    /\ stage_output' = <<>>
    /\ IF idx < Len(stages)
       THEN /\ idx' = idx + 1
            /\ invocations' = Append(invocations, Invocation(stages[idx + 1], outs))
            /\ UNCHANGED ppc
       ELSE /\ ppc' = "done"
            /\ UNCHANGED <<idx, invocations>>
    /\ UNCHANGED <<stages, pipelineRaised>>
    /\ UNCHANGED <<registryVars, variant, trackerVars, enable_tracking, driverVars>>

\* query() raises while stage idx runs: nothing catches it
StageFail ==
    /\ ppc = "streaming"
    /\ ppc' = "failed"
    /\ pipelineRaised' = Propagated(EngineError, stages[idx].name)
    /\ UNCHANGED <<stages, idx, stage_outputs, stage_output, invocations>>
    /\ UNCHANGED <<registryVars, variant, trackerVars, enable_tracking, driverVars>>

----------------------------------------------------------------------------
(* Specifications *)

\* ActivityTracker.__init__ and AgentRegistry.__init__; FlexibleOrchestrator.__init__
InitWith(trackingChoices) ==
    /\ agents = <<>>
    /\ regLog = <<>>
    /\ lastCall = NoCall
    /\ variant \in Variants
    /\ activities = <<>>
    /\ subagent_map = EmptyMap
    /\ enterLog = <<>>
    /\ exitLog = <<>>
    /\ outWrites = <<>>
    /\ open = <<>>
    /\ wellNested = TRUE
    /\ causal = TRUE
    /\ pc = "idle"
    /\ task = None
    /\ runs = 0
    /\ enable_tracking \in trackingChoices
    /\ workspace = EmptyMap
    /\ engineCalls = 0
    /\ results = None
    /\ stages = <<>>
    /\ ppc = "idle"
    /\ idx = 0
    /\ stage_outputs = EmptyMap
    /\ stage_output = <<>>
    /\ invocations = <<>>
    /\ pipelineRaised = NoError

Init == InitWith({TRUE})

\* the registry alone
RegistryInit == Init /\ variant = "flexible"
RegistryNext == RegisterAny \/ RenderContext
RegistrySpec == RegistryInit /\ [][RegistryNext]_vars

\* one execute_pipeline call and the engine it drives
PipelineInit == Init /\ variant = "multi"
PipelineNext ==
    \/ ExecutePipelineAny
    \/ \E text \in BlockTexts : StageText(text)
    \/ \E n \in FileSizes : StageWrite(n)
    \/ StageEnd
    \/ StageFail
PipelineSpec == PipelineInit /\ [][PipelineNext]_vars

\* the registry filled from configuration files
LoaderNext == RegisterFromFileAny \/ RenderContext
LoaderSpec == RegistryInit /\ [][LoaderNext]_vars

\* the tracker alone, its hooks driven by an arbitrary event stream
TrackerNext == TrackerEnter \/ TrackerExit
TrackerSpec == Init /\ [][TrackerNext]_vars

\* the tracker alone, its hooks driven by the well-nested streams: calls are
\* entered inside the innermost open call and exited innermost first
NestedNext == NestedEnter \/ NestedExit
NestedSpec == Init /\ [][NestedNext]_vars

\* the tracker alone, its hooks driven by streams of overlapping calls: each
\* call is entered once, after its parent, and exited once, in any order
ConcurrentNext == ConcurrentEnter \/ ConcurrentExit
ConcurrentSpec == Init /\ [][ConcurrentNext]_vars

\* FlexibleOrchestrator.execute with the engine as its environment
ExecInit == InitWith(BOOLEAN) /\ variant = "flexible"
ExecNext ==
    \/ ExecuteStart
    \/ EngineWrite
    \/ EngineMkdir
    \/ EngineRemove
    \/ EngineEnter
    \/ EngineExit
    \/ StreamEnd
    \/ StreamFail
ExecSpec == ExecInit /\ [][ExecNext]_vars

\* everything together
Next ==
    RegistryNext \/ LoaderNext \/ PipelineNext \/ TrackerNext \/ NestedNext
        \/ ConcurrentNext \/ ExecNext
Spec == InitWith(BOOLEAN) /\ [][Next]_vars

----------------------------------------------------------------------------
(* Properties of the registry *)

LastRegistered == regLog[Len(regLog)]

\* C1: after register(s), get(s.name) returns s and the registry holds exactly
\* one entry under s.name, whatever was registered under that name before
\* (register has no failing path: it is enabled in every state).
C1_RegisterThenGet ==
    regLog # <<>> =>
        /\ Get(agents, LastRegistered.name) = LastRegistered
        /\ Cardinality(KeyPositions(agents, LastRegistered.name)) = 1

\* a name was registered twice in a row with different specs, and another
\* name is registered too
C1_Witness ==
    /\ Len(regLog) = 3
    /\ regLog[2].name = regLog[3].name
    /\ regLog[2] # regLog[3]
    /\ regLog[1].name # regLog[3].name
    /\ Get(agents, regLog[3].name) = regLog[3]
    /\ Len(agents) = 2

----------------------------------------------------------------------------
(* Properties of the tracker *)

LastEnter == enterLog[Len(enterLog)]
LastActivity == activities[Len(activities)]
EnterHappens == Len(enterLog') = Len(enterLog) + 1
ExitHappens == Len(exitLog') = Len(exitLog) + 1

\* C2: every enter event appends one record, labelled with the SpawnMap's
\* label for the event's parent identifier when that identifier is a key of
\* the SpawnMap (as it stands when the record is built), and with the
\* coordinator's label otherwise.
C2_EnterAttribution ==
    [][EnterHappens =>
        /\ Len(activities') = Len(activities) + 1
        /\ LastActivity'.agent_name =
              IF LastEnter'.parent_tool_use_id \in DOMAIN subagent_map'
              THEN subagent_map'[LastEnter'.parent_tool_use_id]
              ELSE RootLabel(variant)]_vars

\* the last enter event named a spawn call as its parent and got its label,
\* and an earlier one named a parent that is no key and got the coordinator's
C2_Witness ==
    /\ Len(activities) >= 3
    /\ LastEnter.parent_tool_use_id \in DOMAIN subagent_map
    /\ LastActivity.agent_name = subagent_map[LastEnter.parent_tool_use_id]
    /\ LastActivity.agent_name # RootLabel(variant)
    /\ \E i \in 1..Len(activities) :
          /\ enterLog[i].parent_tool_use_id \in Ids \ DOMAIN subagent_map
          /\ activities[i].agent_name = RootLabel(variant)

\* C3: a SpawnMap entry is created only by an enter event of the spawn
\* capability, and once a key holds a label no later event changes it.
C3_SpawnEntryWrittenOnce ==
    [][/\ subagent_map' # subagent_map =>
            EnterHappens /\ LastEnter'.tool_name = "Task"
       /\ \A k \in DOMAIN subagent_map :
            k \in DOMAIN subagent_map' /\ subagent_map'[k] = subagent_map[k]]_vars

\* C4: each record's output payload is assigned at most once, and what it
\* holds is the payload of the exit event of the record's own call.
C4_OutputSetOnceByOwnExit ==
    \A i \in 1..Len(activities) :
        /\ outWrites[i] <= 1
        /\ activities[i].output_data # EmptyOutput =>
              activities[i].output_data = Payload(enterLog[i].tool_use_id)

\* the records still awaiting an output
Awaiting == {i \in 1..Len(activities) : activities[i].output_data = EmptyOutput}

\* C5: an exit event writes its payload to the most recently appended record
\* that is still awaiting an output, and changes no record whose output was
\* already set.
C5_ExitWritesLatestAwaiting ==
    [][ExitHappens =>
        /\ \A i \in (1..Len(activities)) \ Awaiting : activities'[i] = activities[i]
        /\ Awaiting # {} =>
              LET m == CHOOSE i \in Awaiting : \A j \in Awaiting : j <= i
              IN activities'[m].output_data = exitLog'[Len(exitLog')].output_data]_vars

\* C6: the activity list never holds two records for the same call
\* identifier (record i is the one the i-th enter event appended).
C6_NoDuplicateRecord ==
    \A i, j \in 1..Len(activities) :
        (i < j /\ enterLog[i].tool_use_id # None) =>
            enterLog[i].tool_use_id # enterLog[j].tool_use_id

\* records attributed to the coordinator
RootCount == Len(GetActivitiesByAgent(activities, RootLabel(variant)))
\* enter events whose parent identifier is unset
UnsetParentCount ==
    Cardinality({i \in 1..Len(enterLog) : enterLog[i].parent_tool_use_id = None})

\* the position of the enter event of record i's parent call (0: none before i)
ParentIndex(i) ==
    LET c == {j \in 1..(i-1) :
                /\ enterLog[j].tool_use_id # None
                /\ enterLog[j].tool_use_id = enterLog[i].parent_tool_use_id}
    IN IF c = {} THEN 0 ELSE CHOOSE j \in c : \A k \in c : k <= j

IsSpawn(j) == enterLog[j].tool_name = "Task"

\* every parent identifier that is set names a spawn call entered before
ParentsAreSpawns ==
    \A i \in 1..Len(enterLog) :
        enterLog[i].parent_tool_use_id # None =>
            ParentIndex(i) # 0 /\ IsSpawn(ParentIndex(i))

\* C7 as stated: in a well-nested stream the coordinator's records are as
\* many as the events whose parent identifier is unset.
C7_RootCountIsUnsetParents ==
    wellNested => RootCount = UnsetParentCount

\* C7 amended: the same, for well-nested streams in which every parent
\* identifier that is set names a spawn call.
C7_RootCountWhenParentsAreSpawns ==
    (wellNested /\ ParentsAreSpawns) => RootCount = UnsetParentCount

\* a well-nested stream with a spawn at top level, a call under it and a
\* second top-level call
C7_Witness ==
    /\ wellNested /\ ParentsAreSpawns
    /\ Len(enterLog) = 3
    /\ UnsetParentCount = 2
    /\ RootCount = 2
    /\ subagent_map # EmptyMap

\* the nearest spawn call above record i (0: none), following parent identifiers
RECURSIVE NearestSpawn(_)
NearestSpawn(i) ==
    IF ParentIndex(i) = 0 THEN 0
    ELSE IF IsSpawn(ParentIndex(i)) THEN ParentIndex(i)
    ELSE NearestSpawn(ParentIndex(i))

\* C8 as stated: in a well-nested stream every call nested under a spawn call,
\* at any depth, carries the label the SpawnMap recorded for that spawn call.
C8_NestedCarrySpawnLabel ==
    wellNested =>
        \A i \in 1..Len(activities) :
            NearestSpawn(i) # 0 =>
                activities[i].agent_name =
                    subagent_map[enterLog[NearestSpawn(i)].tool_use_id]

\* C8 amended: in a well-nested stream every call whose direct parent is a
\* spawn call carries the label the SpawnMap recorded for that spawn call; a
\* call whose direct parent is unset or is not a spawn call carries the
\* coordinator's label, also when it is nested under a spawn call.
C8_DirectChildrenCarrySpawnLabel ==
    wellNested =>
        \A i \in 1..Len(activities) :
            activities[i].agent_name =
                IF ParentIndex(i) # 0 /\ IsSpawn(ParentIndex(i))
                THEN subagent_map[enterLog[ParentIndex(i)].tool_use_id]
                ELSE RootLabel(variant)

\* a spawn call, a call of the spawned worker, and a call made under that one
C8_Witness ==
    /\ wellNested
    /\ Len(activities) = 3
    /\ IsSpawn(1) /\ ParentIndex(2) = 1 /\ ParentIndex(3) = 2 /\ ~IsSpawn(2)
    /\ activities[2].agent_name = subagent_map[enterLog[1].tool_use_id]
    /\ activities[3].agent_name = RootLabel(variant)

\* every record's parent identifier is absent or is the identifier of a call
\* whose record was appended earlier
Forest ==
    /\ Len(activities) = Len(enterLog)
    /\ \A i \in 1..Len(activities) :
          \/ activities[i].parent_tool_id = None
          \/ \E j \in 1..(i-1) :
                enterLog[j].tool_use_id = activities[i].parent_tool_id

\* C9 as stated: in every reachable state the records form a forest.
C9_Forest == Forest

\* C9 amended: the records form a forest in every state reached by a stream
\* that delivers the enter event of a parent call before those of its children.
C9_ForestWhenCausal == causal => Forest

\* a stream in causal order with a chain of two parent links
C9_Witness ==
    /\ causal
    /\ Len(activities) = 3
    /\ activities[2].parent_tool_id = enterLog[1].tool_use_id
    /\ activities[3].parent_tool_id = enterLog[2].tool_use_id

----------------------------------------------------------------------------
(* Properties of execute *)

\* the files under the workspace root
FilesPresent == {p \in DOMAIN workspace : workspace[p].kind = "file"}

\* C10: when execute returns, it has invoked the engine exactly once, the
\* status is "completed", and output_files holds one entry for each file
\* under the workspace root at that moment, with its name and byte size, and
\* nothing else.
C10_SingleInvocationListsFiles ==
    pc = "done" =>
        /\ engineCalls = 1
        /\ results.status = "completed"
        /\ Len(results.output_files) = Cardinality(FilesPresent)
        /\ Range(results.output_files) =
              {[path |-> <<WorkspaceDir, p>>, name |-> BaseName(p),
                size |-> workspace[p].size] : p \in FilesPresent}

\* execute returned on a workspace holding report.md, a nested file and the
\* directory it lies in
C10_Witness ==
    /\ pc = "done"
    /\ FilesPresent = {"report.md", "out/data.json"}
    /\ workspace["report.md"].size = 12
    /\ Len(results.output_files) = 2

\* C11: the returned dictionary holds the activity timeline and the total
\* call count exactly when tracking is enabled; when present, the timeline is
\* the tracker's record list and the count is the number of its records.
C11_TimelineIffTracking ==
    pc = "done" =>
        /\ ("activity_timeline" \in DOMAIN results) <=> enable_tracking
        /\ ("total_tool_calls" \in DOMAIN results) <=> enable_tracking
        /\ enable_tracking =>
              /\ results.activity_timeline = activities
              /\ results.total_tool_calls = Len(results.activity_timeline)

\* execute returned with tracking enabled after a call was entered and exited
C11_Witness ==
    /\ pc = "done"
    /\ enable_tracking
    /\ Len(exitLog) = 1
    /\ results.total_tool_calls = 1

\* C12: every execute call starts with an empty activity list and an empty
\* SpawnMap, so what it returns covers its own events only.
C12_FreshTrackerPerRun ==
    [][(pc # "streaming" /\ pc' = "streaming") =>
          activities' = <<>> /\ subagent_map' = EmptyMap]_vars

\* the call just made is register_from_file
LoadHappens == lastCall'.op = "register_from_file"

\* the top-level value of the file is an object or a list of objects
ObjectOrObjects(content) ==
    \/ content.kind = "object"
    \/ content.kind = "list" /\ \A i \in DOMAIN content.items :
                                    content.items[i].kind = "object"

\* the records of a document, in order
Records(content) == IF content.kind = "list" THEN content.items ELSE <<content>>

\* every record of the document is registered: the registry holds, under each
\* record's name, the last record of the document with that name
EveryRecordRegistered(d, content) ==
    LET recs == Records(content) IN
    \A i \in DOMAIN recs :
        LET last == CHOOSE j \in DOMAIN recs :
                        /\ recs[j].obj.name = recs[i].obj.name
                        /\ \A k \in DOMAIN recs :
                               recs[k].obj.name = recs[i].obj.name => k <= j
        IN Get(d, recs[i].obj.name) = FromDict(recs[last].obj)

\* the exception register_from_file raises for a format it does not support
\* (a ValueError at the raise statement) is the spec's ConfigFormatError
ConfigFormatError == "ValueError"

RegPositions(name) == {i \in DOMAIN regLog : regLog[i].name = name}
FirstRegistration(name) ==
    CHOOSE i \in RegPositions(name) : \A j \in RegPositions(name) : i <= j
LastRegistration(name) ==
    CHOOSE i \in RegPositions(name) : \A j \in RegPositions(name) : j <= i

\* the specs now registered that carry the tag
Carrying(tag) ==
    {regLog[LastRegistration(n)] : n \in {regLog[i].name : i \in DOMAIN regLog}}
        \cap {cfg \in AgentConfig : tag \in Range(cfg.capabilities)}

\* found lists exactly the specs of S, each once
ListsExactly(found, S) ==
    /\ Range(found) = S
    /\ \A i, j \in DOMAIN found : found[i] = found[j] => i = j

Tags == {"io", "web"}

\* C19 (as stated): find_by_capability returns exactly the registered specs
\* that carry the tag, each once, in the order in which those specs were
\* registered, a re-registered name included.
C19_FindInRegistrationOrder ==
    \A tag \in Tags :
        LET found == FindByCapability(agents, tag) IN
        /\ ListsExactly(found, Carrying(tag))
        /\ \A i, j \in DOMAIN found :
               i < j => LastRegistration(found[i].name) < LastRegistration(found[j].name)

\* C19 (amended): find_by_capability returns exactly the registered specs
\* that carry the tag, each once, in the order in which their names were first
\* registered: a re-registered name keeps its place.
C19_FindInFirstRegistrationOrder ==
    \A tag \in Tags :
        LET found == FindByCapability(agents, tag) IN
        /\ ListsExactly(found, Carrying(tag))
        /\ \A i, j \in DOMAIN found :
               i < j => FirstRegistration(found[i].name) < FirstRegistration(found[j].name)

\* two specs carry the tag, and the first name was registered again with a
\* different spec after the second
C19_Witness ==
    /\ Len(regLog) = 3
    /\ regLog[3].name = regLog[1].name
    /\ regLog[3] # regLog[1]
    /\ regLog[2].name # regLog[1].name
    /\ Len(FindByCapability(agents, "io")) = 2

\* the call just made is to_prompt_context
RenderHappens == lastCall'.op = "to_prompt_context"

ListedNames == {stages[i].name : i \in DOMAIN stages}
StageNamed(name) == stages[CHOOSE i \in DOMAIN stages : stages[i].name = name]
DependenciesOf(name) == Range(StageNamed(name).dependencies)

\* the stages execute_pipeline has reached
Reached == {stages[i].name : i \in 1..idx}

\* the stage had a dependency that had not completed when its turn came
Unsatisfied(name) ==
    \E i \in DOMAIN stages :
        /\ stages[i].name = name
        /\ ~(DependenciesOf(name) \subseteq {stages[j].name : j \in 1..(i - 1)})

\* C13: no stage is started before each of its dependencies has completed;
\* a stage whose dependency has not completed (listed later, unknown or
\* failed) ends the run with DependencyNotSatisfiedError and no engine
\* invocation for it.
C13_NoStartBeforeDependencies ==
    /\ \A k \in DOMAIN invocations :
           DependenciesOf(invocations[k].stage) \subseteq invocations[k].completed
    /\ \A name \in Reached :
           Unsatisfied(name) =>
               /\ ppc = "failed"
               /\ pipelineRaised.type = "DependencyNotSatisfiedError"
               /\ \A k \in DOMAIN invocations : invocations[k].stage # name

\* name depends, in at most n steps, on target
RECURSIVE DependsWithin(_, _, _)
DependsWithin(name, target, n) ==
    /\ n > 0
    /\ name \in ListedNames
    /\ \/ target \in DependenciesOf(name)
       \/ \E via \in DependenciesOf(name) : DependsWithin(via, target, n - 1)

\* the stage list is an acyclic set of stages: every dependency is a listed
\* stage and no stage depends on itself, directly or through others
Cyclic == \E name \in ListedNames : DependsWithin(name, name, Len(stages))
Acyclic ==
    /\ \A name \in ListedNames : DependenciesOf(name) \subseteq ListedNames
    /\ ~Cyclic

\* the positions in the run at which the stage was invoked
RunPositions(name) == {k \in DOMAIN invocations : invocations[k].stage = name}

\* C14: for an acyclic set of stages in any list order, a completed run
\* invoked every stage exactly once, each after all its dependencies.
C14_RunOrderTopological ==
    (ppc = "done" /\ Acyclic) =>
        \A name \in ListedNames :
            /\ Cardinality(RunPositions(name)) = 1
            /\ \A dep \in DependenciesOf(name) :
                   \A k \in RunPositions(name) :
                       \E j \in RunPositions(dep) : j < k

\* C15: a stage list with a dependency cycle is refused with CycleError
\* before any engine invocation; no stage of it is executed.
C15_CycleRefused ==
    (ppc # "idle" /\ Cyclic) =>
        /\ invocations = <<>>
        /\ ppc = "failed"
        /\ pipelineRaised.type = "CycleError"

\* what execute_pipeline added to the task of invocation k
Injected(k) ==
    SubSeq(invocations[k].prompt, Len(TaskOf(StageNamed(invocations[k].stage))) + 1,
           Len(invocations[k].prompt))

\* the text recorded for a stage when invocation k was made; the empty text
\* if none was
RecordedAt(k, name) ==
    IF name \in invocations[k].completed THEN stage_outputs[name] ELSE <<>>

RECURSIVE Concatenated(_, _)
Concatenated(k, deps) ==
    IF deps = <<>> THEN <<>>
    ELSE RecordedAt(k, Head(deps)) \o Concatenated(k, Tail(deps))

\* C16 (as stated): the injected context is exactly the texts recorded for
\* the dependencies, concatenated in declaration order.
C16_InjectedIsConcatenation ==
    \A k \in DOMAIN invocations :
        Injected(k) =
            Concatenated(k, StageNamed(invocations[k].stage).dependencies)

\* the dependencies of invocation k that had completed, in declaration order
CompletedDeps(k) ==
    SelectSeq(StageNamed(invocations[k].stage).dependencies,
              LAMBDA dep : dep \in invocations[k].completed)

\* where the block of the i-th completed dependency starts in the context
RECURSIVE BlockOffset(_, _)
BlockOffset(k, i) ==
    IF i = 1 THEN 1
    ELSE BlockOffset(k, i - 1) + 4 + Len(stage_outputs[CompletedDeps(k)[i - 1]])

\* C16 (amended): a stage without dependencies gets its task alone; otherwise
\* the injected context is the header followed, in declaration order, by one
\* block per dependency that has completed: its name in brackets, the text
\* recorded for it, and a newline. A dependency that has not completed adds
\* nothing.
C16_InjectedIsLabelledBlocks ==
    \A k \in DOMAIN invocations :
        LET deps == StageNamed(invocations[k].stage).dependencies
            done == CompletedDeps(k)
            ctx == Injected(k)
        IN IF deps = <<>> THEN ctx = <<>>
           ELSE /\ ctx[1] = ContextHeader
                /\ Len(ctx) = BlockOffset(k, Len(done) + 1)
                /\ \A i \in DOMAIN done :
                       LET at == BlockOffset(k, i)
                           text == stage_outputs[done[i]]
                       IN /\ <<ctx[at + 1], ctx[at + 2], ctx[at + 3]>>
                                = <<"\n[", done[i], "]:\n">>
                          /\ SubSeq(ctx, at + 4, at + 3 + Len(text)) = text
                          /\ ctx[at + 4 + Len(text)] = "\n"

\* a stage declared two dependencies against the list order, and each had
\* recorded a text of its own
C16_Witness ==
    \E k \in DOMAIN invocations :
        /\ StageNamed(invocations[k].stage).dependencies = <<"B", "A">>
        /\ invocations[k].completed = {"A", "B"}
        /\ stage_outputs["A"] = <<"X">>
        /\ stage_outputs["B"] = <<"Y">>

NoAgentsText == <<"No agents registered.">>

\* where the entries of a rendered context start: at each bullet
EntryStarts(text) == {p \in DOMAIN text : text[p] = "* "}

\* the pieces of list l, comma-separated, stand in text from position at on
ListedAt(text, at, l) ==
    /\ \A j \in DOMAIN l : text[at + 2 * j - 2] = l[j]
    /\ \A j \in 1..(Len(l) - 1) : text[at + 2 * j - 1] = ", "
JoinedLen(l) == IF l = <<>> THEN 0 ELSE 2 * Len(l) - 1

\* the entry starting at p shows this spec: name, description, capabilities
\* and tools
EntryShows(text, p, cfg) ==
    LET capsAt == p + 7
        toolsAt == capsAt + JoinedLen(cfg.capabilities) + 2
    IN /\ text[p + 1] = cfg.name
       /\ text[p + 3] = "  Description: " /\ text[p + 4] = cfg.description
       /\ text[p + 6] = "  Capabilities: "
       /\ ListedAt(text, capsAt, cfg.capabilities)
       /\ text[toolsAt - 2] = "\n" /\ text[toolsAt - 1] = "  Tools: "
       /\ ListedAt(text, toolsAt, cfg.tools)
       /\ text[toolsAt + JoinedLen(cfg.tools)] = "\n\n"

RegisteredNames == {regLog[i].name : i \in DOMAIN regLog}

\* C21: to_prompt_context returns the fixed text for no agents exactly when
\* nothing is registered; otherwise the text has one entry per registered
\* name, showing the name, description, capabilities and tools of its spec,
\* the names in the order in which they were registered.
C21_RenderListsEveryWorkerOnce ==
    lastCall.op = "to_prompt_context" =>
        LET text == lastCall.returned IN
        /\ text = NoAgentsText <=> regLog = <<>>
        /\ regLog # <<>> =>
              /\ \A name \in RegisteredNames :
                     Cardinality({p \in EntryStarts(text) : text[p + 1] = name}) = 1
              /\ \A p \in EntryStarts(text) :
                     /\ text[p + 1] \in RegisteredNames
                     /\ EntryShows(text, p, regLog[LastRegistration(text[p + 1])])
              /\ \A p, q \in EntryStarts(text) :
                     p < q => FirstRegistration(text[p + 1])
                                  < FirstRegistration(text[q + 1])

\* the context of two agents was rendered after one of them had been
\* registered twice
C21_Witness ==
    /\ lastCall.op = "to_prompt_context"
    /\ Len(regLog) = 3
    /\ Cardinality(EntryStarts(lastCall.returned)) = 2

\* the invocations whose stream has not ended: started, neither stored nor
\* failed
OpenInvocations ==
    {k \in DOMAIN invocations :
        /\ invocations[k].stage \notin DOMAIN stage_outputs
        /\ ppc # "failed"}

\* C22: execute_pipeline never has two query() invocations open at once: the
\* invocation of a stage is made only when the output of the stage before it
\* in the list has been stored.
C22_OneInvocationAtATime ==
    /\ Cardinality(OpenInvocations) <= 1
    /\ \A k \in 2..Len(invocations) :
           invocations[k - 1].stage \in invocations[k].completed

\* the third stage is streaming text after two stages have ended
C22_Witness ==
    /\ ppc = "streaming"
    /\ Len(invocations) = 3
    /\ stage_output # <<>>
    /\ OpenInvocations = {3}

\* every enter event of a spawn call comes before the enter events of the
\* calls that name it as their parent
SpawnsPrecedeChildren ==
    \A i, j \in DOMAIN enterLog :
        (/\ IsSpawn(j)
         /\ enterLog[j].tool_use_id # None
         /\ enterLog[j].tool_use_id = enterLog[i].parent_tool_use_id) => j < i

\* the label pre_tool_use_hook recorded at the spawn event at position j: the
\* requested type and one more than the spawn identifiers recorded before
SpawnIdsBefore(j) ==
    {enterLog[m].tool_use_id : m \in {n \in 1..(j - 1) : IsSpawn(n)}} \ {None}
LabelRecordedAt(j) ==
    <<Upper(enterLog[j].subagent_type), Cardinality(SpawnIdsBefore(j)) + 1>>

\* C23: in every stream in which the enter event of a spawn call comes before
\* those of its direct children, each direct child of a spawn call carries
\* the label recorded for that spawn call, wherever in the stream the child's
\* enter event stands and whatever other sub-workers are open.
C23_ChildLabelIndependentOfPosition ==
    SpawnsPrecedeChildren =>
        \A i \in DOMAIN activities :
            (ParentIndex(i) # 0 /\ IsSpawn(ParentIndex(i))) =>
                /\ activities[i].agent_name = LabelRecordedAt(ParentIndex(i))
                /\ activities[i].agent_name =
                       subagent_map[enterLog[i].parent_tool_use_id]

\* two sub-workers were spawned, and the call entered next belongs to the
\* first of them, not to the one spawned last
C23_Witness ==
    /\ SpawnsPrecedeChildren
    /\ Len(enterLog) = 3
    /\ IsSpawn(1) /\ IsSpawn(2)
    /\ DOMAIN subagent_map = {enterLog[1].tool_use_id, enterLog[2].tool_use_id}
    /\ enterLog[1].tool_use_id # enterLog[2].tool_use_id
    /\ ParentIndex(3) = 1
    /\ activities[3].agent_name = subagent_map[enterLog[1].tool_use_id]
    /\ activities[3].agent_name # subagent_map[enterLog[2].tool_use_id]

\* the record appended for the call with this identifier (0: none)
RecordOf(id) ==
    IF \E i \in DOMAIN enterLog : enterLog[i].tool_use_id = id
    THEN CHOOSE i \in DOMAIN enterLog : enterLog[i].tool_use_id = id
    ELSE 0

\* the identifiers exited before record i was appended (the timestamp of a
\* record counts the events before it)
ExitedBefore(acts, xlog, i) ==
    {xlog[m].tool_use_id : m \in 1..(acts[i].timestamp - (i - 1))}

\* the call of record i was still open when the next record was appended
OpenWhenNextEntered(acts, elog, xlog, i) ==
    /\ i < Len(acts)
    /\ elog[i].tool_use_id \notin ExitedBefore(acts, xlog, i + 1)

\* C24: when a call a is exited while a call b entered after it is the last
\* one entered, the payload of exit(a) is written to b's record and a's
\* record is left as it is; the record of a call that was open when the next
\* call was entered never holds the payload of its own exit.
C24_OverlapMisattributesOutput ==
    [][/\ ExitHappens =>
            LET x == exitLog'[Len(exitLog')]
                a == RecordOf(x.tool_use_id)
                b == Len(activities)
            IN a < b =>
                 /\ activities'[b].output_data = x.output_data
                 /\ activities'[a] = activities[a]
       /\ \A i \in DOMAIN activities' :
            OpenWhenNextEntered(activities', enterLog', exitLog', i) =>
                activities'[i].output_data # Payload(enterLog'[i].tool_use_id)]_vars

\* the stream enter(a), enter(b), exit(a), exit(b): a's record has no output,
\* b's holds the payload of exit(b), written over that of exit(a)
C24_Witness ==
    /\ Len(enterLog) = 2 /\ Len(exitLog) = 2
    /\ activities[1].timestamp = 0 /\ activities[2].timestamp = 1
    /\ exitLog[1].tool_use_id = enterLog[1].tool_use_id
    /\ exitLog[2].tool_use_id = enterLog[2].tool_use_id
    /\ activities[1].output_data = EmptyOutput
    /\ activities[2].output_data = Payload(enterLog[2].tool_use_id)
    /\ outWrites[2] = 2

\* the enter event just observed is a spawn call whose label was recorded
SpawnRecorded ==
    /\ EnterHappens
    /\ LastEnter'.tool_name = "Task"
    /\ LastEnter'.tool_use_id # None

\* C25: the ordinal of each newly synthesized label is strictly greater than
\* the ordinal of every label synthesized before it.
C25_OrdinalStrictlyIncreasing ==
    [][SpawnRecorded =>
          \A k \in DOMAIN subagent_map :
              subagent_map'[LastEnter'.tool_use_id][2] > subagent_map[k][2]]_vars

\* C26: the record of a spawn call (one that does not name itself as its
\* parent) carries the label that issued the spawn, resolved from the call's
\* parent identifier, never the label synthesized for the spawn itself; a
\* record carries the label of a SpawnMap key only if its parent identifier
\* is that key.
C26_SpawnRecordCarriesIssuerLabel ==
    [][/\ (SpawnRecorded
             /\ LastEnter'.parent_tool_use_id # LastEnter'.tool_use_id) =>
            /\ LastActivity'.agent_name =
                   IF LastEnter'.parent_tool_use_id \in DOMAIN subagent_map
                   THEN subagent_map[LastEnter'.parent_tool_use_id]
                   ELSE RootLabel(variant)
            /\ LastActivity'.agent_name # subagent_map'[LastEnter'.tool_use_id]
       /\ EnterHappens =>
            \A k \in DOMAIN subagent_map' :
                LastActivity'.agent_name = subagent_map'[k] =>
                    LastEnter'.parent_tool_use_id = k]_vars

\* C27: two different keys of the SpawnMap never map to the same label.
C27_LabelsDistinct ==
    \A k1, k2 \in DOMAIN subagent_map :
        k1 # k2 => subagent_map[k1] # subagent_map[k2]

\* C28: every enter event appends exactly one record; an exit event neither
\* adds nor removes a record and does nothing to an empty list; nothing else
\* changes the length of the list; the label, tool name and parent identifier
\* of a record never change once it is appended.
C28_ActivitiesAppendOnly ==
    [][/\ EnterHappens => Len(activities') = Len(activities) + 1
       /\ ExitHappens => Len(activities') = Len(activities)
       /\ (ExitHappens /\ activities = <<>>) => activities' = <<>>
       /\ Len(activities') # Len(activities) => EnterHappens
       /\ \A i \in DOMAIN activities :
            /\ i \in DOMAIN activities'
            /\ activities'[i].agent_name = activities[i].agent_name
            /\ activities'[i].tool_name = activities[i].tool_name
            /\ activities'[i].parent_tool_id = activities[i].parent_tool_id]_vars

\* an exit event came to the empty list, then a call was entered and exited
C28_Witness ==
    /\ Len(activities) = 1
    /\ Len(exitLog) = 2
    /\ activities[1].timestamp = 1
    /\ outWrites[1] = 1

\* no spawn call with the parent identifier of record i was entered up to
\* record i
ParentNotYetSpawned(i) ==
    /\ enterLog[i].parent_tool_use_id # None
    /\ \A j \in 1..i :
           ~(IsSpawn(j) /\ enterLog[j].tool_use_id = enterLog[i].parent_tool_use_id)

\* the spawn call record i names as its parent was entered after record i
ParentSpawnedLater(i) ==
    \E j \in (i + 1)..Len(enterLog) :
        IsSpawn(j) /\ enterLog[j].tool_use_id = enterLog[i].parent_tool_use_id

\* C30: a call entered before its parent spawn call carries the
\* coordinator's label, and still carries it after the parent spawn call has
\* been entered.
C30_AttributionFixedAtEnter ==
    \A i \in DOMAIN activities :
        ParentNotYetSpawned(i) => activities[i].agent_name = RootLabel(variant)

\* a call was entered before the spawn call it names as parent; the parent
\* now has a label, the call's record has the coordinator's
C30_Witness ==
    \E i \in DOMAIN activities :
        /\ ParentNotYetSpawned(i)
        /\ ParentSpawnedLater(i)
        /\ enterLog[i].parent_tool_use_id \in DOMAIN subagent_map
        /\ activities[i].agent_name = RootLabel(variant)

\* the position of the record a load of this list fails at: the first
\* record AgentConfig does not accept (0 when there is none)
FailsAt(items) ==
    IF \A i \in DOMAIN items : Accepted(items[i]) THEN 0
    ELSE CHOOSE k \in DOMAIN items :
             /\ ~Accepted(items[k])
             /\ \A i \in 1..(k - 1) : Accepted(items[i])

\* the configurations of the records before position k
ConfigsBefore(items, k) == [i \in 1..(k - 1) |-> FromDict(items[i].obj)]

\* the names the registry holds
NamesIn(d) == {d[i].name : i \in DOMAIN d}

\* C29: when a bulk load of a list of records fails at record k, the records
\* before k are registered (one register call each, in order; the registry
\* holds under each of their names the last of them with that name) and the
\* records from k on are not: every other name is as it was before the call.
C29_FailedLoadKeepsEarlierRecords ==
    [][(LoadHappens /\ lastCall'.suffix = ".json"
          /\ lastCall'.content.kind = "list"
          /\ FailsAt(lastCall'.content.items) # 0) =>
          LET items == lastCall'.content.items
              before == ConfigsBefore(items, FailsAt(items))
          IN /\ lastCall'.raised # None
             /\ regLog' = regLog \o before
             /\ \A i \in DOMAIN before :
                    Get(agents', before[i].name) =
                        before[CHOOSE j \in DOMAIN before :
                                   /\ before[j].name = before[i].name
                                   /\ \A m \in DOMAIN before :
                                          before[m].name = before[i].name => m <= j]
             /\ NamesIn(agents') = NamesIn(agents) \cup Range(
                    [i \in DOMAIN before |-> before[i].name])
             /\ \A n \in NamesIn(agents) \ Range(
                    [i \in DOMAIN before |-> before[i].name]) :
                    Get(agents', n) = Get(agents, n)]_vars

\* a load of two records failed at the second: the first is registered
C29_Witness ==
    /\ lastCall.op = "register_from_file"
    /\ lastCall.suffix = ".json"
    /\ lastCall.content.kind = "list"
    /\ Len(lastCall.content.items) = 2
    /\ FailsAt(lastCall.content.items) = 2
    /\ lastCall.raised = "TypeError"
    /\ regLog # <<>>
    /\ regLog[Len(regLog)] = FromDict(lastCall.content.items[1].obj)
    /\ Get(agents, lastCall.content.items[1].obj.name) =
           FromDict(lastCall.content.items[1].obj)

====
